---------------------------- MODULE Spec2Model ----------------------------
(***************************************************************************)
(* The XORJ vault program (audit-package revision of programs/vault):      *)
(* one VaultAccount per owner, owner-only custody operations against the   *)
(* SPL token ledger, a single revocable bot delegation and the emergency   *)
(* stop.  Every instruction is one atomic transaction: an instruction that *)
(* returns Err aborts the transaction and none of its writes persist.      *)
(***************************************************************************)
EXTENDS Integers, Sequences, FiniteSets, TLC

(***************************************************************************)
(* Bounds of the model.                                                    *)
(***************************************************************************)
\* Clock::get()?.unix_timestamp is drawn from 1..MaxTime
MaxTime == 2

(***************************************************************************)
(* u64 arithmetic.  A u64 is kept at its full width as three limbs        *)
(* <<hi, mid, lo>> of 20 + 22 + 22 bits, value hi*2^44 + mid*2^22 + lo.    *)
(***************************************************************************)
LimbBase == 2^22
HiBase == 2^20

\* the u64 with value n, for 0 <= n < 2^31
u64(n) == <<0, n \div LimbBase, n % LimbBase>>

U64_ZERO == u64(0)
U64_MAX == <<HiBase - 1, LimbBase - 1, LimbBase - 1>>

\* Option<T>: None is the empty set, Some(x) the singleton
None == {}
Some(x) == {x}
unwrap(opt) == CHOOSE x \in opt : TRUE

\* a < b on u64
u64_lt(a, b) ==
    \/ a[1] < b[1]
    \/ a[1] = b[1] /\ a[2] < b[2]
    \/ a[1] = b[1] /\ a[2] = b[2] /\ a[3] < b[3]

\* a <= b, a > b, a >= b on u64
u64_le(a, b) == ~u64_lt(b, a)
u64_gt(a, b) == u64_lt(b, a)
u64_ge(a, b) == ~u64_lt(a, b)

\* u64::checked_add: None on overflow past 2^64 - 1
checked_add(a, b) ==
    LET lo == a[3] + b[3]
        mid == a[2] + b[2] + (lo \div LimbBase)
        hi == a[1] + b[1] + (mid \div LimbBase)
    IN  IF hi >= HiBase THEN None
        ELSE Some(<<hi, mid % LimbBase, lo % LimbBase>>)

\* u64::checked_sub: None when b > a
checked_sub(a, b) ==
    IF u64_lt(a, b) THEN None
    ELSE LET bl == IF a[3] < b[3] THEN 1 ELSE 0
             lo == a[3] - b[3] + bl * LimbBase
             bm == IF a[2] - bl < b[2] THEN 1 ELSE 0
             mid == a[2] - bl - b[2] + bm * LimbBase
             hi == a[1] - bm - b[1]
         IN  Some(<<hi, mid, lo>>)

\* u64::checked_mul by a small factor k (k < 2^8): None on overflow
checked_mul(a, k) ==
    LET lo == a[3] * k
        mid == a[2] * k + (lo \div LimbBase)
        hi == a[1] * k + (mid \div LimbBase)
    IN  IF hi >= HiBase THEN None
        ELSE Some(<<hi, mid % LimbBase, lo % LimbBase>>)

\* u64::checked_div by a small divisor d (d < 2^8): None when d = 0
checked_div(a, d) ==
    IF d = 0 THEN None
    ELSE LET t2 == (a[1] % d) * LimbBase + a[2]
             t3 == (t2 % d) * LimbBase + a[3]
         IN  Some(<<a[1] \div d, t2 \div d, t3 \div d>>)

(***************************************************************************)
(* Identities, mints and token accounts.                                   *)
(***************************************************************************)
\* the public keys that sign transactions
Keys == {"alice", "bob", "bot"}
\* the keys that create vaults: alice alone in the custody and trading
\* specifications, alice and bob in the two-owner specification
Owners == {"alice"}
TwoOwners == {"alice", "bob"}
\* the keys an owner delegates to
Delegates == {"bob", "bot"}
\* the mints of the token accounts handed to the program
Mints == {"usdc", "alt"}
\* the program ids handed in as jupiter_program; "default" is Pubkey::default()
Routers == {"jupiter", "default"}
Timestamps == 1..MaxTime

\* the token account of mint m whose authority is key k; it is the
\* user_token_account a signer k hands to deposit
Wallet(k, m) == <<"wallet", k, m>>
\* the token account of mint m whose authority is the vault PDA of owner o
Holding(o, m) == <<"vault", o, m>>
TokenAccounts ==
    {Wallet(k, m) : k \in Keys, m \in Mints} \cup {Holding(o, m) : o \in TwoOwners, m \in Mints}

\* ctx.bumps.vault: the canonical bump of the PDA [b"vault", owner]
Bump(o) == IF o = "alice" THEN 255 ELSE 254

CANARY_DEPOSIT_CAP == u64(1000000000)

(***************************************************************************)
(* State.                                                                  *)
(***************************************************************************)
VARIABLES
    vault,      \* the VaultAccount PDAs that exist, keyed by owner
    token,      \* the SPL token ledger: the amount of every token account
    emitted,    \* the events emitted by the last committed transaction
    last        \* the last transaction: instruction, signer, vault, amount, result

vars == <<vault, token, emitted, last>>

(***************************************************************************)
(* Inputs.                                                                 *)
(***************************************************************************)
\* the amounts handed to deposit and withdraw
Amounts(m) ==
    IF m = "usdc" THEN {u64(0), u64(500000000), u64(600000000)}
    ELSE {U64_MAX}
\* the accounts a caller may pass as user_token_account of a withdrawal of
\* mint m: every token account of that mint, a vault holding included
UserTokenAccounts(m) == {a \in TokenAccounts : a[3] = m}
\* the amounts sent to a vault holding directly
TransferAmounts(m) == IF m = "usdc" THEN {} ELSE {U64_MAX}
\* the amount_in and minimum_amount_out handed to bot_trade
TradeAmounts == {u64(0), u64(1000000), U64_MAX}
MinimumAmounts == {u64(0), u64(950000), u64(950001)}
\* route_data: Vec<u8>, empty or not
RouteData == {<<>>, <<1>>}
\* the output mint of a trade is the other mint
OtherMint(m) == IF m = "usdc" THEN "alt" ELSE "usdc"

(***************************************************************************)
(* The token ledger (anchor_spl::token).                                   *)
(***************************************************************************)
\* token::transfer(from, to, amount) with a valid authority for `from`
token_transfer(tk, from, to, amount) ==
    IF u64_lt(tk[from], amount) THEN [err |-> "TokenInsufficientFunds", token |-> tk]
    ELSE IF from = to THEN [err |-> "Ok", token |-> tk]
    ELSE IF checked_add(tk[to], amount) = None THEN [err |-> "TokenOverflow", token |-> tk]
    ELSE [err |-> "Ok",
          token |-> [tk EXCEPT ![from] = unwrap(checked_sub(tk[from], amount)),
                               ![to] = unwrap(checked_add(tk[to], amount))]]

(***************************************************************************)
(* Results of an instruction: the error code and the accounts as the       *)
(* handler left them when it returned.                                     *)
(***************************************************************************)
Ok(vt, tk, ev) == [err |-> "Ok", vault |-> vt, token |-> tk, events |-> ev]
Err(e, vt, tk) == [err |-> e, vault |-> vt, token |-> tk, events |-> <<>>]

\* The runtime around an instruction: Ok commits the accounts the handler
\* wrote and the events it emitted, Err aborts the transaction.
\* variant: the accounts stay as the handler left them, also on Err
Transaction_NoRollback(res) == res
Transaction(res) ==
    IF res.err = "Ok" THEN res
    ELSE [res EXCEPT !.vault = vault, !.token = token, !.events = <<>>]

(***************************************************************************)
(* Account validation (#[derive(Accounts)]).                               *)
(***************************************************************************)
\* variant: init_if_needed in place of init
InitializeVault_IfNeeded(vt, owner) == "Ok"
\* variant: init that accepts an account whose vault was deactivated
InitializeVault_UnlessInactive(vt, owner) ==
    IF owner \in DOMAIN vt /\ vt[owner].is_active THEN "AlreadyExists" ELSE "Ok"
\* InitializeVault: `init` of the PDA [b"vault", owner]
InitializeVault(vt, owner) ==
    IF owner \in DOMAIN vt THEN "AlreadyExists" ELSE "Ok"

\* #[account(seeds = [b"vault", owner.key()], bump = vault.bump, has_one = owner)]
\* with owner: Signer: the vault passed in exists and its owner is the signer
\* variant: has_one = owner left out
has_one_owner_AnySigner(vt, o, signer) ==
    IF o \notin DOMAIN vt THEN "AccountNotInitialized" ELSE "Ok"
has_one_owner(vt, o, signer) ==
    IF o \notin DOMAIN vt THEN "AccountNotInitialized"
    ELSE IF vt[o].owner # signer THEN "ConstraintHasOne"
    ELSE "Ok"

Deposit(vt, o, signer) == has_one_owner(vt, o, signer)
Withdraw(vt, o, signer) == has_one_owner(vt, o, signer)
\* variant: GrantBotAuthority without has_one = owner
GrantBotAuthority_AnySigner(vt, o, signer) ==
    IF o \notin DOMAIN vt THEN "AccountNotInitialized" ELSE "Ok"
GrantBotAuthority(vt, o, signer) == has_one_owner(vt, o, signer)
RevokeBotAuthority(vt, o, signer) == has_one_owner(vt, o, signer)
DeactivateVault(vt, o, signer) == has_one_owner(vt, o, signer)

\* BotTrade: the vault exists; bot_authority: Signer is any signer
BotTrade(vt, o) ==
    IF o \notin DOMAIN vt THEN "AccountNotInitialized" ELSE "Ok"

(***************************************************************************)
(* Instruction handlers.  vt and tk are the accounts on entry, the result  *)
(* carries the accounts as written when the handler returns.               *)
(***************************************************************************)
\* variant: one vault account shared by all owners (seeds without the owner)
initialize_vault_Shared(vt, tk, owner, now) ==
    LET v == [owner |-> owner,
              total_deposited |-> U64_ZERO,
              bot_authority |-> None,
              is_active |-> TRUE,
              created_at |-> now,
              bump |-> Bump(owner)]
    IN  Ok([k \in DOMAIN vt \cup {owner} |-> v], tk, <<>>)

initialize_vault(vt, tk, owner, now) ==
    LET v == [owner |-> owner,
              total_deposited |-> U64_ZERO,
              bot_authority |-> None,
              is_active |-> TRUE,
              created_at |-> now,
              bump |-> Bump(owner)]
    IN  Ok([k \in DOMAIN vt \cup {owner} |-> IF k = owner THEN v ELSE vt[k]], tk, <<>>)

\* variant: deposit without the deposit cap
deposit_NoCap(vt, tk, o, signer, m, amount) ==
    IF ~vt[o].is_active THEN Err("VaultInactive", vt, tk)
    ELSE IF ~u64_gt(amount, U64_ZERO) THEN Err("InvalidAmount", vt, tk)
    ELSE LET tr == token_transfer(tk, Wallet(signer, m), Holding(o, m), amount)
             new_total == checked_add(vt[o].total_deposited, amount)
         IN  IF tr.err # "Ok" THEN Err(tr.err, vt, tk)
             ELSE IF new_total = None THEN Err("Overflow", vt, tr.token)
             ELSE Ok([vt EXCEPT ![o].total_deposited = unwrap(new_total)], tr.token, <<>>)

\* variant: deposit that does not keep total_deposited
deposit_NoCounter(vt, tk, o, signer, m, amount) ==
    IF ~vt[o].is_active THEN Err("VaultInactive", vt, tk)
    ELSE IF ~u64_gt(amount, U64_ZERO) THEN Err("InvalidAmount", vt, tk)
    ELSE LET tr == token_transfer(tk, Wallet(signer, m), Holding(o, m), amount)
         IN  IF tr.err # "Ok" THEN Err(tr.err, vt, tk)
             ELSE Ok(vt, tr.token, <<>>)

\* variant: deposit whose cap check is strict (new_total < cap)
deposit_StrictCap(vt, tk, o, signer, m, amount) ==
    IF ~vt[o].is_active THEN Err("VaultInactive", vt, tk)
    ELSE IF ~u64_gt(amount, U64_ZERO) THEN Err("InvalidAmount", vt, tk)
    ELSE LET tr == token_transfer(tk, Wallet(signer, m), Holding(o, m), amount)
             new_total == checked_add(vt[o].total_deposited, amount)
         IN  IF tr.err # "Ok" THEN Err(tr.err, vt, tk)
             ELSE IF new_total = None THEN Err("Overflow", vt, tr.token)
             ELSE IF ~u64_lt(unwrap(new_total), CANARY_DEPOSIT_CAP)
                  THEN Err("DepositCapExceeded", vt, tr.token)
             ELSE Ok([vt EXCEPT ![o].total_deposited = unwrap(new_total)], tr.token, <<>>)

\* variant: deposit without the is_active gate
deposit_NoGate(vt, tk, o, signer, m, amount) ==
    IF ~u64_gt(amount, U64_ZERO) THEN Err("InvalidAmount", vt, tk)
    ELSE LET tr == token_transfer(tk, Wallet(signer, m), Holding(o, m), amount)
             new_total == checked_add(vt[o].total_deposited, amount)
         IN  IF tr.err # "Ok" THEN Err(tr.err, vt, tk)
             ELSE IF new_total = None THEN Err("Overflow", vt, tr.token)
             ELSE IF ~u64_le(unwrap(new_total), CANARY_DEPOSIT_CAP)
                  THEN Err("DepositCapExceeded", vt, tr.token)
             ELSE Ok([vt EXCEPT ![o].total_deposited = unwrap(new_total)], tr.token, <<>>)

\* variant: deposit with saturating_add in place of checked_add
deposit_SaturatingAdd(vt, tk, o, signer, m, amount) ==
    IF ~vt[o].is_active THEN Err("VaultInactive", vt, tk)
    ELSE IF ~u64_gt(amount, U64_ZERO) THEN Err("InvalidAmount", vt, tk)
    ELSE LET tr == token_transfer(tk, Wallet(signer, m), Holding(o, m), amount)
             sum == checked_add(vt[o].total_deposited, amount)
             new_total == IF sum = None THEN U64_MAX ELSE unwrap(sum)
         IN  IF tr.err # "Ok" THEN Err(tr.err, vt, tk)
             ELSE IF ~u64_le(new_total, CANARY_DEPOSIT_CAP)
                  THEN Err("DepositCapExceeded", vt, tr.token)
             ELSE Ok([vt EXCEPT ![o].total_deposited = new_total], tr.token, <<>>)

\* deposit: gate, amount check, transfer in, checked_add, cap, store
deposit(vt, tk, o, signer, m, amount) ==
    IF ~vt[o].is_active THEN Err("VaultInactive", vt, tk)
    ELSE IF ~u64_gt(amount, U64_ZERO) THEN Err("InvalidAmount", vt, tk)
    ELSE LET tr == token_transfer(tk, Wallet(signer, m), Holding(o, m), amount)
             new_total == checked_add(vt[o].total_deposited, amount)
         IN  IF tr.err # "Ok" THEN Err(tr.err, vt, tk)
             ELSE IF new_total = None THEN Err("Overflow", vt, tr.token)
             ELSE IF ~u64_le(unwrap(new_total), CANARY_DEPOSIT_CAP)
                  THEN Err("DepositCapExceeded", vt, tr.token)
             ELSE Ok([vt EXCEPT ![o].total_deposited = unwrap(new_total)], tr.token, <<>>)

\* variant: withdraw gated on is_active
withdraw_Gated(vt, tk, o, user_token_account, m, amount) ==
    IF ~vt[o].is_active THEN Err("VaultInactive", vt, tk)
    ELSE IF ~u64_gt(amount, U64_ZERO) THEN Err("InvalidAmount", vt, tk)
    ELSE IF ~u64_ge(tk[Holding(o, m)], amount) THEN Err("InsufficientFunds", vt, tk)
    ELSE LET tr == token_transfer(tk, Holding(o, m), user_token_account, amount)
             new_total == checked_sub(vt[o].total_deposited, amount)
         IN  IF tr.err # "Ok" THEN Err(tr.err, vt, tk)
             ELSE IF new_total = None THEN Err("Underflow", vt, tr.token)
             ELSE Ok([vt EXCEPT ![o].total_deposited = unwrap(new_total)], tr.token, <<>>)

\* variant: withdraw without the amount > 0 check
withdraw_NoAmountCheck(vt, tk, o, user_token_account, m, amount) ==
    IF ~u64_ge(tk[Holding(o, m)], amount) THEN Err("InsufficientFunds", vt, tk)
    ELSE LET tr == token_transfer(tk, Holding(o, m), user_token_account, amount)
             new_total == checked_sub(vt[o].total_deposited, amount)
         IN  IF tr.err # "Ok" THEN Err(tr.err, vt, tk)
             ELSE IF new_total = None THEN Err("Underflow", vt, tr.token)
             ELSE Ok([vt EXCEPT ![o].total_deposited = unwrap(new_total)], tr.token, <<>>)

\* variant: withdraw without the balance check
withdraw_NoBalanceCheck(vt, tk, o, user_token_account, m, amount) ==
    IF ~u64_gt(amount, U64_ZERO) THEN Err("InvalidAmount", vt, tk)
    ELSE LET tr == token_transfer(tk, Holding(o, m), user_token_account, amount)
             new_total == checked_sub(vt[o].total_deposited, amount)
         IN  IF tr.err # "Ok" THEN Err(tr.err, vt, tk)
             ELSE IF new_total = None THEN Err("Underflow", vt, tr.token)
             ELSE Ok([vt EXCEPT ![o].total_deposited = unwrap(new_total)], tr.token, <<>>)

\* variant: withdraw with saturating_sub in place of checked_sub
withdraw_SaturatingSub(vt, tk, o, user_token_account, m, amount) ==
    IF ~u64_gt(amount, U64_ZERO) THEN Err("InvalidAmount", vt, tk)
    ELSE IF ~u64_ge(tk[Holding(o, m)], amount) THEN Err("InsufficientFunds", vt, tk)
    ELSE LET tr == token_transfer(tk, Holding(o, m), user_token_account, amount)
             diff == checked_sub(vt[o].total_deposited, amount)
             new_total == IF diff = None THEN U64_ZERO ELSE unwrap(diff)
         IN  IF tr.err # "Ok" THEN Err(tr.err, vt, tk)
             ELSE Ok([vt EXCEPT ![o].total_deposited = new_total], tr.token, <<>>)

\* withdraw: amount check, balance check against the ledger, transfer out
\* signed by the vault PDA, checked_sub, store.  user_token_account is the
\* destination the caller passes: Withdraw puts no constraint on it but mut
withdraw(vt, tk, o, user_token_account, m, amount) ==
    IF ~u64_gt(amount, U64_ZERO) THEN Err("InvalidAmount", vt, tk)
    ELSE IF ~u64_ge(tk[Holding(o, m)], amount) THEN Err("InsufficientFunds", vt, tk)
    ELSE LET tr == token_transfer(tk, Holding(o, m), user_token_account, amount)
             new_total == checked_sub(vt[o].total_deposited, amount)
         IN  IF tr.err # "Ok" THEN Err(tr.err, vt, tk)
             ELSE IF new_total = None THEN Err("Underflow", vt, tr.token)
             ELSE Ok([vt EXCEPT ![o].total_deposited = unwrap(new_total)], tr.token, <<>>)

\* variant: grant that keeps a delegate already set
grant_bot_authority_KeepsFirst(vt, tk, o, delegate) ==
    IF vt[o].bot_authority # None THEN Ok(vt, tk, <<>>)
    ELSE Ok([vt EXCEPT ![o].bot_authority = Some(delegate)], tk, <<>>)

\* variant: grant that writes the delegate into the owner field
grant_bot_authority_SetsOwner(vt, tk, o, delegate) ==
    Ok([vt EXCEPT ![o].owner = delegate], tk, <<>>)

grant_bot_authority(vt, tk, o, delegate) ==
    Ok([vt EXCEPT ![o].bot_authority = Some(delegate)], tk, <<>>)

\* variant: revoke that is refused when there is no delegate
revoke_bot_authority_NeedsDelegate(vt, tk, o) ==
    IF vt[o].bot_authority = None THEN Err("UnauthorizedBot", vt, tk)
    ELSE Ok([vt EXCEPT ![o].bot_authority = None], tk, <<>>)

\* variant: revoke that reports success and leaves the delegate in place
revoke_bot_authority_KeepsDelegate(vt, tk, o) ==
    Ok(vt, tk, <<>>)

revoke_bot_authority(vt, tk, o) ==
    Ok([vt EXCEPT ![o].bot_authority = None], tk, <<>>)

\* variant: deactivate that only clears the delegate
deactivate_vault_KeepsActive(vt, tk, o) ==
    Ok([vt EXCEPT ![o].bot_authority = None], tk, <<>>)

\* variant: deactivate that is refused on an inactive vault
deactivate_vault_OnlyOnce(vt, tk, o) ==
    IF ~vt[o].is_active THEN Err("VaultInactive", vt, tk)
    ELSE Ok([vt EXCEPT ![o].is_active = FALSE, ![o].bot_authority = None], tk, <<>>)

deactivate_vault(vt, tk, o) ==
    Ok([vt EXCEPT ![o].is_active = FALSE, ![o].bot_authority = None], tk, <<>>)

\* emit!(TradeExecuted { .. })
TradeExecuted(o, signer, input_mint, output_mint, amount_in, amount_out, minimum_amount_out, now) ==
    [vault |-> o,
     bot_authority |-> signer,
     input_mint |-> input_mint,
     output_mint |-> output_mint,
     amount_in |-> amount_in,
     amount_out |-> amount_out,
     minimum_amount_out |-> minimum_amount_out,
     timestamp |-> now]

\* variant: bot_trade without the is_active gate
bot_trade_NoGate(vt, tk, o, signer, amount_in, minimum_amount_out, route_data, jupiter_program, input_mint, output_mint, now) ==
    LET mul == checked_mul(amount_in, 95)
        simulated_output == checked_div(unwrap(mul), 100)
    IN  IF vt[o].bot_authority # Some(signer) THEN Err("UnauthorizedBot", vt, tk)
        ELSE IF ~u64_gt(amount_in, U64_ZERO) THEN Err("InvalidAmount", vt, tk)
        ELSE IF ~u64_gt(minimum_amount_out, U64_ZERO) THEN Err("InvalidAmount", vt, tk)
        ELSE IF ~u64_ge(tk[Holding(o, input_mint)], amount_in)
             THEN Err("InsufficientFunds", vt, tk)
        ELSE IF Len(route_data) = 0 THEN Err("InvalidRouteData", vt, tk)
        ELSE IF jupiter_program = "default" THEN Err("InvalidRouteData", vt, tk)
        ELSE IF mul = None THEN Err("Overflow", vt, tk)
        ELSE IF simulated_output = None THEN Err("Underflow", vt, tk)
        ELSE IF ~u64_ge(unwrap(simulated_output), minimum_amount_out)
             THEN Err("SlippageExceeded", vt, tk)
        ELSE Ok(vt, tk, <<TradeExecuted(o, signer, input_mint, output_mint, amount_in,
                                        unwrap(simulated_output), minimum_amount_out, now)>>)

\* variant: bot_trade that accepts any signer once a delegate is set
bot_trade_NoAuth(vt, tk, o, signer, amount_in, minimum_amount_out, route_data, jupiter_program, input_mint, output_mint, now) ==
    LET mul == checked_mul(amount_in, 95)
        simulated_output == checked_div(unwrap(mul), 100)
    IN  IF ~vt[o].is_active THEN Err("VaultInactive", vt, tk)
        ELSE IF vt[o].bot_authority = None THEN Err("UnauthorizedBot", vt, tk)
        ELSE IF ~u64_gt(amount_in, U64_ZERO) THEN Err("InvalidAmount", vt, tk)
        ELSE IF ~u64_gt(minimum_amount_out, U64_ZERO) THEN Err("InvalidAmount", vt, tk)
        ELSE IF ~u64_ge(tk[Holding(o, input_mint)], amount_in)
             THEN Err("InsufficientFunds", vt, tk)
        ELSE IF Len(route_data) = 0 THEN Err("InvalidRouteData", vt, tk)
        ELSE IF jupiter_program = "default" THEN Err("InvalidRouteData", vt, tk)
        ELSE IF mul = None THEN Err("Overflow", vt, tk)
        ELSE IF simulated_output = None THEN Err("Underflow", vt, tk)
        ELSE IF ~u64_ge(unwrap(simulated_output), minimum_amount_out)
             THEN Err("SlippageExceeded", vt, tk)
        ELSE Ok(vt, tk, <<TradeExecuted(o, signer, input_mint, output_mint, amount_in,
                                        unwrap(simulated_output), minimum_amount_out, now)>>)

\* variant: bot_trade that takes amount_in off total_deposited
bot_trade_Accounting(vt, tk, o, signer, amount_in, minimum_amount_out, route_data, jupiter_program, input_mint, output_mint, now) ==
    LET mul == checked_mul(amount_in, 95)
        simulated_output == checked_div(unwrap(mul), 100)
        new_total == checked_sub(vt[o].total_deposited, amount_in)
    IN  IF ~vt[o].is_active THEN Err("VaultInactive", vt, tk)
        ELSE IF vt[o].bot_authority # Some(signer) THEN Err("UnauthorizedBot", vt, tk)
        ELSE IF ~u64_gt(amount_in, U64_ZERO) THEN Err("InvalidAmount", vt, tk)
        ELSE IF ~u64_gt(minimum_amount_out, U64_ZERO) THEN Err("InvalidAmount", vt, tk)
        ELSE IF ~u64_ge(tk[Holding(o, input_mint)], amount_in)
             THEN Err("InsufficientFunds", vt, tk)
        ELSE IF Len(route_data) = 0 THEN Err("InvalidRouteData", vt, tk)
        ELSE IF jupiter_program = "default" THEN Err("InvalidRouteData", vt, tk)
        ELSE IF mul = None THEN Err("Overflow", vt, tk)
        ELSE IF simulated_output = None THEN Err("Underflow", vt, tk)
        ELSE IF ~u64_ge(unwrap(simulated_output), minimum_amount_out)
             THEN Err("SlippageExceeded", vt, tk)
        ELSE IF new_total = None THEN Err("Underflow", vt, tk)
        ELSE Ok([vt EXCEPT ![o].total_deposited = unwrap(new_total)], tk,
                <<TradeExecuted(o, signer, input_mint, output_mint, amount_in,
                                unwrap(simulated_output), minimum_amount_out, now)>>)

\* variant: bot_trade without the input balance check
bot_trade_NoBalanceCheck(vt, tk, o, signer, amount_in, minimum_amount_out, route_data, jupiter_program, input_mint, output_mint, now) ==
    LET mul == checked_mul(amount_in, 95)
        simulated_output == checked_div(unwrap(mul), 100)
    IN  IF ~vt[o].is_active THEN Err("VaultInactive", vt, tk)
        ELSE IF vt[o].bot_authority # Some(signer) THEN Err("UnauthorizedBot", vt, tk)
        ELSE IF ~u64_gt(amount_in, U64_ZERO) THEN Err("InvalidAmount", vt, tk)
        ELSE IF ~u64_gt(minimum_amount_out, U64_ZERO) THEN Err("InvalidAmount", vt, tk)
        ELSE IF Len(route_data) = 0 THEN Err("InvalidRouteData", vt, tk)
        ELSE IF jupiter_program = "default" THEN Err("InvalidRouteData", vt, tk)
        ELSE IF mul = None THEN Err("Overflow", vt, tk)
        ELSE IF simulated_output = None THEN Err("Underflow", vt, tk)
        ELSE IF ~u64_ge(unwrap(simulated_output), minimum_amount_out)
             THEN Err("SlippageExceeded", vt, tk)
        ELSE Ok(vt, tk, <<TradeExecuted(o, signer, input_mint, output_mint, amount_in,
                                        unwrap(simulated_output), minimum_amount_out, now)>>)

\* variant: bot_trade with saturating_mul in place of checked_mul
bot_trade_SaturatingMul(vt, tk, o, signer, amount_in, minimum_amount_out, route_data, jupiter_program, input_mint, output_mint, now) ==
    LET product == checked_mul(amount_in, 95)
        mul == IF product = None THEN Some(U64_MAX) ELSE product
        simulated_output == checked_div(unwrap(mul), 100)
    IN  IF ~vt[o].is_active THEN Err("VaultInactive", vt, tk)
        ELSE IF vt[o].bot_authority # Some(signer) THEN Err("UnauthorizedBot", vt, tk)
        ELSE IF ~u64_gt(amount_in, U64_ZERO) THEN Err("InvalidAmount", vt, tk)
        ELSE IF ~u64_gt(minimum_amount_out, U64_ZERO) THEN Err("InvalidAmount", vt, tk)
        ELSE IF ~u64_ge(tk[Holding(o, input_mint)], amount_in)
             THEN Err("InsufficientFunds", vt, tk)
        ELSE IF Len(route_data) = 0 THEN Err("InvalidRouteData", vt, tk)
        ELSE IF jupiter_program = "default" THEN Err("InvalidRouteData", vt, tk)
        ELSE IF simulated_output = None THEN Err("Underflow", vt, tk)
        ELSE IF ~u64_ge(unwrap(simulated_output), minimum_amount_out)
             THEN Err("SlippageExceeded", vt, tk)
        ELSE Ok(vt, tk, <<TradeExecuted(o, signer, input_mint, output_mint, amount_in,
                                        unwrap(simulated_output), minimum_amount_out, now)>>)

\* bot_trade: gate, authorization, amounts, input balance, route data,
\* router id, simulated swap at 95%, slippage floor, TradeExecuted
bot_trade(vt, tk, o, signer, amount_in, minimum_amount_out, route_data, jupiter_program, input_mint, output_mint, now) ==
    LET mul == checked_mul(amount_in, 95)
        simulated_output == checked_div(unwrap(mul), 100)
    IN  IF ~vt[o].is_active THEN Err("VaultInactive", vt, tk)
        ELSE IF vt[o].bot_authority # Some(signer) THEN Err("UnauthorizedBot", vt, tk)
        ELSE IF ~u64_gt(amount_in, U64_ZERO) THEN Err("InvalidAmount", vt, tk)
        ELSE IF ~u64_gt(minimum_amount_out, U64_ZERO) THEN Err("InvalidAmount", vt, tk)
        ELSE IF ~u64_ge(tk[Holding(o, input_mint)], amount_in)
             THEN Err("InsufficientFunds", vt, tk)
        ELSE IF Len(route_data) = 0 THEN Err("InvalidRouteData", vt, tk)
        ELSE IF jupiter_program = "default" THEN Err("InvalidRouteData", vt, tk)
        ELSE IF mul = None THEN Err("Overflow", vt, tk)
        ELSE IF simulated_output = None THEN Err("Underflow", vt, tk)
        ELSE IF ~u64_ge(unwrap(simulated_output), minimum_amount_out)
             THEN Err("SlippageExceeded", vt, tk)
        ELSE Ok(vt, tk, <<TradeExecuted(o, signer, input_mint, output_mint, amount_in,
                                        unwrap(simulated_output), minimum_amount_out, now)>>)

(***************************************************************************)
(* bot_trade of the revision that calls the external router                *)
(* (programs/vault/src/lib.rs).  The router is not part of the program:    *)
(* what a route spends out of the input holding and credits to the output  *)
(* holding, or that it fails, is chosen by the environment.                *)
(***************************************************************************)
\* route: Route, by what the router does with it
Routes ==
    {[err |-> "RouterError", spent |-> U64_ZERO, realized |-> U64_ZERO],
     [err |-> "Ok", spent |-> U64_ZERO, realized |-> U64_ZERO],
     [err |-> "Ok", spent |-> u64(500000000), realized |-> U64_ZERO],
     [err |-> "Ok", spent |-> u64(500000000), realized |-> u64(940000)]}

\* jupiter_cpi::route(cpi_ctx, route), signed by the vault PDA
jupiter_cpi_route(tk, o, input_mint, output_mint, route) ==
    IF route.err # "Ok" THEN [err |-> route.err, token |-> tk]
    ELSE IF u64_lt(tk[Holding(o, input_mint)], route.spent)
         THEN [err |-> "TokenInsufficientFunds", token |-> tk]
    ELSE IF checked_add(tk[Holding(o, output_mint)], route.realized) = None
         THEN [err |-> "TokenOverflow", token |-> tk]
    ELSE [err |-> "Ok",
          token |-> [tk EXCEPT
                        ![Holding(o, input_mint)] = unwrap(checked_sub(@, route.spent)),
                        ![Holding(o, output_mint)] = unwrap(checked_add(@, route.realized))]]

\* a result together with the number of router calls the handler made
Routed(res, n) ==
    [err |-> res.err, vault |-> res.vault, token |-> res.token, events |-> res.events,
     routed |-> n]

\* BotTrade of that revision: the vault exists, jupiter_program has the
\* address jupiter_cpi::ID
BotTrade_jupiter(vt, o, jupiter_program) ==
    IF o \notin DOMAIN vt THEN "AccountNotInitialized"
    ELSE IF jupiter_program # "jupiter" THEN "ConstraintAddress"
    ELSE "Ok"

\* bot_trade of that revision: gate, authorization, router call, event
bot_trade_jupiter(vt, tk, o, signer, route, amount_in, minimum_amount_out, input_mint, output_mint, now) ==
    IF ~vt[o].is_active THEN Routed(Err("VaultInactive", vt, tk), 0)
    ELSE IF vt[o].bot_authority # Some(signer) THEN Routed(Err("UnauthorizedBot", vt, tk), 0)
    ELSE LET cpi == jupiter_cpi_route(tk, o, input_mint, output_mint, route)
         IN  IF cpi.err # "Ok" THEN Routed(Err(cpi.err, vt, tk), 1)
             ELSE Routed(Ok(vt, cpi.token,
                            <<TradeExecuted(o, signer, input_mint, output_mint, amount_in,
                                            minimum_amount_out, minimum_amount_out, now)>>), 1)

(***************************************************************************)
(* Transactions: account validation, then the handler, then commit or      *)
(* abort.  Each *_tx is the outcome of one instruction sent in the current *)
(* state: its error code, the accounts after it and the events it logged.  *)
(***************************************************************************)
\* validation error `chk`, or else the handler's result `res`
Dispatch(chk, res) == IF chk # "Ok" THEN Err(chk, vault, token) ELSE res

initialize_vault_tx(signer, now) ==
    Transaction(Dispatch(InitializeVault(vault, signer),
                         initialize_vault(vault, token, signer, now)))

deposit_tx(signer, o, m, amount) ==
    Transaction(Dispatch(Deposit(vault, o, signer),
                         deposit(vault, token, o, signer, m, amount)))

withdraw_tx(signer, o, user_token_account, m, amount) ==
    Transaction(Dispatch(Withdraw(vault, o, signer),
                         withdraw(vault, token, o, user_token_account, m, amount)))

grant_bot_authority_tx(signer, o, delegate) ==
    Transaction(Dispatch(GrantBotAuthority(vault, o, signer),
                         grant_bot_authority(vault, token, o, delegate)))

revoke_bot_authority_tx(signer, o) ==
    Transaction(Dispatch(RevokeBotAuthority(vault, o, signer),
                         revoke_bot_authority(vault, token, o)))

deactivate_vault_tx(signer, o) ==
    Transaction(Dispatch(DeactivateVault(vault, o, signer),
                         deactivate_vault(vault, token, o)))

bot_trade_tx(signer, o, amount_in, minimum_amount_out, route_data, jupiter_program, input_mint, now) ==
    Transaction(Dispatch(BotTrade(vault, o),
                         bot_trade(vault, token, o, signer, amount_in, minimum_amount_out,
                                   route_data, jupiter_program, input_mint,
                                   OtherMint(input_mint), now)))

bot_trade_jupiter_tx(signer, o, route, amount_in, minimum_amount_out, jupiter_program, input_mint, now) ==
    LET chk == BotTrade_jupiter(vault, o, jupiter_program)
    IN  Transaction(IF chk # "Ok" THEN Routed(Err(chk, vault, token), 0)
                    ELSE bot_trade_jupiter(vault, token, o, signer, route, amount_in,
                                           minimum_amount_out, input_mint,
                                           OtherMint(input_mint), now))

\* what `last` records of a transaction
Sent(op, signer, o, amount, err) ==
    [op |-> op, caller |-> signer, vault |-> o, amount |-> amount, err |-> err]

Initialize(signer, now) ==
    LET out == initialize_vault_tx(signer, now)
    IN  /\ vault' = out.vault
        /\ token' = out.token
        /\ emitted' = out.events
        /\ last' = Sent("initialize_vault", signer, signer, U64_ZERO, out.err)

DoDeposit(signer, o, m, amount) ==
    LET out == deposit_tx(signer, o, m, amount)
    IN  /\ vault' = out.vault
        /\ token' = out.token
        /\ emitted' = out.events
        /\ last' = Sent("deposit", signer, o, amount, out.err)

DoWithdraw(signer, o, user_token_account, m, amount) ==
    LET out == withdraw_tx(signer, o, user_token_account, m, amount)
    IN  /\ vault' = out.vault
        /\ token' = out.token
        /\ emitted' = out.events
        /\ last' = Sent("withdraw", signer, o, amount, out.err)

Grant(signer, o, delegate) ==
    LET out == grant_bot_authority_tx(signer, o, delegate)
    IN  /\ vault' = out.vault
        /\ token' = out.token
        /\ emitted' = out.events
        /\ last' = Sent("grant_bot_authority", signer, o, U64_ZERO, out.err)

Revoke(signer, o) ==
    LET out == revoke_bot_authority_tx(signer, o)
    IN  /\ vault' = out.vault
        /\ token' = out.token
        /\ emitted' = out.events
        /\ last' = Sent("revoke_bot_authority", signer, o, U64_ZERO, out.err)

Deactivate(signer, o) ==
    LET out == deactivate_vault_tx(signer, o)
    IN  /\ vault' = out.vault
        /\ token' = out.token
        /\ emitted' = out.events
        /\ last' = Sent("deactivate_vault", signer, o, U64_ZERO, out.err)

Trade(signer, o, amount_in, minimum_amount_out, route_data, jupiter_program, input_mint, now) ==
    LET out == bot_trade_tx(signer, o, amount_in, minimum_amount_out, route_data,
                            jupiter_program, input_mint, now)
    IN  /\ vault' = out.vault
        /\ token' = out.token
        /\ emitted' = out.events
        /\ last' = Sent("bot_trade", signer, o, amount_in, out.err)

TradeJupiter(signer, o, route, amount_in, minimum_amount_out, jupiter_program, input_mint, now) ==
    LET out == bot_trade_jupiter_tx(signer, o, route, amount_in, minimum_amount_out,
                                    jupiter_program, input_mint, now)
    IN  /\ vault' = out.vault
        /\ token' = out.token
        /\ emitted' = out.events
        /\ last' = Sent("bot_trade", signer, o, amount_in, out.err)

\* a wallet owner sends tokens straight to a vault holding through the
\* token program, without calling the vault program
LedgerTransfer(signer, o, m, amount) ==
    LET tr == token_transfer(token, Wallet(signer, m), Holding(o, m), amount)
    IN  /\ token' = tr.token
        /\ last' = Sent("token_transfer", signer, o, amount, tr.err)
        /\ emitted' = <<>>
        /\ UNCHANGED vault

(***************************************************************************)
(* Specification.                                                          *)
(***************************************************************************)
Init ==
    /\ vault = [o \in {} |-> 0]
    /\ token = [a \in TokenAccounts |->
                    IF a = Wallet("alice", "usdc") THEN u64(1100000000)
                    ELSE IF a = Wallet("alice", "alt") THEN U64_MAX
                    ELSE U64_ZERO]
    /\ emitted = <<>>
    /\ last = Sent("none", "none", "none", U64_ZERO, "Ok")

\* The custody specification: every amount of deposit and withdraw, one
\* well-formed trade request per signer; withdrawals are received in the
\* caller's own token account.
Next ==
    \/ \E signer \in Owners, now \in Timestamps : Initialize(signer, now)
    \/ \E signer \in Keys, o \in Owners, m \in Mints :
        \E amount \in Amounts(m) : DoDeposit(signer, o, m, amount)
    \/ \E signer \in Keys, o \in Owners, m \in Mints :
        \E amount \in Amounts(m) : DoWithdraw(signer, o, Wallet(signer, m), m, amount)
    \/ \E signer \in Keys, o \in Owners, delegate \in Delegates : Grant(signer, o, delegate)
    \/ \E signer \in Keys, o \in Owners : Revoke(signer, o)
    \/ \E signer \in Keys, o \in Owners : Deactivate(signer, o)
    \/ \E signer \in Keys, o \in Owners, now \in Timestamps :
        Trade(signer, o, u64(1000000), u64(950000), <<1>>, "jupiter", "usdc", now)
    \/ \E signer \in Owners, o \in Owners, m \in Mints :
        \E amount \in TransferAmounts(m) : LedgerTransfer(signer, o, m, amount)

Spec == Init /\ [][Next]_vars

\* The trading specification: every combination of trade arguments, one
\* amount of deposit and withdraw.
NextTrade ==
    \/ \E signer \in Owners, now \in Timestamps : Initialize(signer, now)
    \/ \E signer \in Keys, o \in Owners : DoDeposit(signer, o, "usdc", u64(500000000))
    \/ \E signer \in Keys, o \in Owners :
        DoWithdraw(signer, o, Wallet(signer, "usdc"), "usdc", u64(500000000))
    \/ \E signer \in Keys, o \in Owners, delegate \in Delegates : Grant(signer, o, delegate)
    \/ \E signer \in Keys, o \in Owners : Revoke(signer, o)
    \/ \E signer \in Keys, o \in Owners : Deactivate(signer, o)
    \/ \E signer \in Keys, o \in Owners, amount_in \in TradeAmounts,
          minimum_amount_out \in MinimumAmounts, route_data \in RouteData,
          jupiter_program \in Routers, input_mint \in Mints, now \in Timestamps :
        Trade(signer, o, amount_in, minimum_amount_out, route_data, jupiter_program,
              input_mint, now)
    \/ \E signer \in Owners, o \in Owners, m \in Mints :
        \E amount \in TransferAmounts(m) : LedgerTransfer(signer, o, m, amount)

SpecTrade == Init /\ [][NextTrade]_vars

\* The two-owner specification: alice and bob each create and run a vault,
\* one amount, one delegate and one well-formed trade request.
InitOwners ==
    /\ vault = [o \in {} |-> 0]
    /\ token = [a \in TokenAccounts |->
                    IF a = Wallet("alice", "usdc") THEN u64(1100000000)
                    ELSE IF a = Wallet("bob", "usdc") THEN u64(500000000)
                    ELSE U64_ZERO]
    /\ emitted = <<>>
    /\ last = Sent("none", "none", "none", U64_ZERO, "Ok")

NextOwners ==
    \/ \E signer \in TwoOwners, now \in Timestamps : Initialize(signer, now)
    \/ \E signer \in TwoOwners, o \in TwoOwners : DoDeposit(signer, o, "usdc", u64(500000000))
    \/ \E signer \in TwoOwners, o \in TwoOwners :
        DoWithdraw(signer, o, Wallet(signer, "usdc"), "usdc", u64(500000000))
    \/ \E signer \in TwoOwners, o \in TwoOwners : Grant(signer, o, "bot")
    \/ \E signer \in TwoOwners, o \in TwoOwners : Revoke(signer, o)
    \/ \E signer \in TwoOwners, o \in TwoOwners : Deactivate(signer, o)
    \/ \E o \in TwoOwners, now \in Timestamps :
        Trade("bot", o, u64(1000000), u64(950000), <<1>>, "jupiter", "usdc", now)

SpecOwners == InitOwners /\ [][NextOwners]_vars

\* The bookkeeping specification: the holdings change through deposit and
\* withdraw of this program only (no transfer made directly on the ledger,
\* no trade), and a withdrawal names any token account of the mint as its
\* user_token_account.
NextBooks ==
    \/ \E signer \in Owners, now \in Timestamps : Initialize(signer, now)
    \/ \E signer \in Keys, o \in Owners : DoDeposit(signer, o, "usdc", u64(500000000))
    \/ \E signer \in Keys, o \in Owners :
        \E user_token_account \in UserTokenAccounts("usdc") :
            DoWithdraw(signer, o, user_token_account, "usdc", u64(500000000))
    \/ \E signer \in Keys, o \in Owners : Deactivate(signer, o)

SpecBooks == Init /\ [][NextBooks]_vars

\* The router specification: the custody and delegation instructions with
\* the bot_trade that calls the external router.
RouteAmounts == {U64_ZERO, u64(500000000)}
RouteMinimums == {U64_ZERO, u64(950000)}

NextRoute ==
    \/ \E signer \in Owners, now \in Timestamps : Initialize(signer, now)
    \/ \E signer \in Owners, o \in Owners : DoDeposit(signer, o, "usdc", u64(500000000))
    \/ \E signer \in Owners, o \in Owners, delegate \in Delegates : Grant(signer, o, delegate)
    \/ \E signer \in Owners, o \in Owners : Deactivate(signer, o)
    \/ \E signer \in Delegates, o \in Owners, route \in Routes, amount_in \in RouteAmounts,
          minimum_amount_out \in RouteMinimums, jupiter_program \in Routers,
          now \in Timestamps :
        TradeJupiter(signer, o, route, amount_in, minimum_amount_out, jupiter_program,
                     "usdc", now)

SpecRoute == Init /\ [][NextRoute]_vars

(***************************************************************************)
(* Properties.                                                             *)
(***************************************************************************)
\* the last transaction was instruction op on a vault that exists
Called(op) == last.op = op /\ last.vault \in DOMAIN vault

\* the ledger tk with `amount` moved from account `from` to account `to`
Moved(tk, from, to, amount) ==
    [tk EXCEPT ![from] = unwrap(checked_sub(tk[from], amount)),
               ![to] = unwrap(checked_add(tk[to], amount))]

\* C1 as stated: a bot_trade by a caller who is not the delegate fails with
\* UnauthorizedBot in every vault state.  (bot_trade never writes the vault,
\* so the record after the call is the record the call saw.)
C1_Original ==
    (Called("bot_trade") /\ vault[last.vault].bot_authority # Some(last.caller))
        => last.err = "UnauthorizedBot"

\* C1 amended: a bot_trade by a caller who is not the delegate (also when
\* there is no delegate) always fails: with UnauthorizedBot on an active
\* vault, with VaultInactive on an inactive one.
C1_Amended ==
    (Called("bot_trade") /\ vault[last.vault].bot_authority # Some(last.caller))
        => last.err = IF vault[last.vault].is_active THEN "UnauthorizedBot"
                      ELSE "VaultInactive"

C1_Witness ==
    /\ Called("bot_trade")
    /\ vault[last.vault].is_active
    /\ vault[last.vault].bot_authority = Some("bot")
    /\ last.caller = "bob"
    /\ last.err = "UnauthorizedBot"

\* C2: on a vault with is_active = false every bot_trade fails with
\* VaultInactive, whoever calls it, whatever the arguments and whatever
\* bot_authority is.
C2_InactiveGate ==
    (Called("bot_trade") /\ ~vault[last.vault].is_active) => last.err = "VaultInactive"

C2_Witness ==
    /\ Called("bot_trade")
    /\ ~vault[last.vault].is_active
    /\ vault[last.vault].bot_authority = Some("bob")
    /\ last.caller = "bot"
    /\ last.err = "VaultInactive"

C3_Step ==
    /\ (last'.op = "deactivate_vault" /\ last'.err = "Ok")
        => /\ ~vault'[last'.vault].is_active
           /\ vault'[last'.vault].bot_authority = None
    /\ \A o \in DOMAIN vault :
        ~vault[o].is_active
            => /\ o \in DOMAIN vault'
               /\ ~vault'[o].is_active
               /\ (last'.op = "bot_trade" /\ last'.vault = o) => last'.err # "Ok"

\* C3: a successful deactivate leaves is_active = false and bot_authority =
\* None; from then on the vault stays inactive through every operation, a
\* new grant included, and every bot_trade on it fails, so the delegate
\* that was set before the deactivate can never trade again.
C3_DeactivateIsFinal == [][C3_Step]_vars

C3_Witness ==
    /\ Called("bot_trade")
    /\ ~vault[last.vault].is_active
    /\ vault[last.vault].bot_authority = Some(last.caller)
    /\ last.err # "Ok"

OwnerOnlyOps ==
    {"deposit", "withdraw", "grant_bot_authority", "revoke_bot_authority", "deactivate_vault"}

C4_Step ==
    (/\ last'.op \in OwnerOnlyOps
     /\ last'.vault \in DOMAIN vault
     /\ vault[last'.vault].owner # last'.caller)
        => (last'.err # "Ok" /\ vault' = vault /\ token' = token)

\* C4: deposit, withdraw, grant_bot_authority, revoke_bot_authority and
\* deactivate called by anyone but vault.owner (the current delegate
\* included) fail and change neither the vault record nor any balance.
C4_OwnerOnly == [][C4_Step]_vars

C4_Witness ==
    /\ Called("withdraw")
    /\ last.caller = "bot"
    /\ vault[last.vault].bot_authority = Some("bot")
    /\ u64_gt(last.amount, U64_ZERO)
    /\ u64_ge(token[Holding(last.vault, "usdc")], last.amount)
    /\ last.err = "ConstraintHasOne"

\* C5: no withdraw fails with VaultInactive, and on a deactivated vault the
\* owner's withdraw of an amount > 0 that is within the holding balance and
\* within total_deposited succeeds with the effect of a withdraw: the
\* counter and the holding go down by the amount, the owner's balance up.
C5_WithdrawNotGated ==
    /\ last.op = "withdraw" => last.err # "VaultInactive"
    /\ \A o \in DOMAIN vault, m \in Mints : \A amount \in Amounts(m) :
        (/\ ~vault[o].is_active
         /\ u64_gt(amount, U64_ZERO)
         /\ u64_le(amount, token[Holding(o, m)])
         /\ u64_le(amount, vault[o].total_deposited))
            => \A to \in UserTokenAccounts(m) :
                 LET r == withdraw_tx(vault[o].owner, o, to, m, amount)
                 IN  /\ r.err = "Ok"
                     /\ r.vault = [vault EXCEPT ![o].total_deposited =
                                                    unwrap(checked_sub(@, amount))]
                     /\ r.token = IF to = Holding(o, m) THEN token
                                  ELSE Moved(token, Holding(o, m), to, amount)

C5_Witness ==
    /\ Called("withdraw")
    /\ ~vault[last.vault].is_active
    /\ last.err = "Ok"

C7_DepositEffect ==
    \A signer \in Keys, o \in DOMAIN vault, m \in Mints : \A amount \in Amounts(m) :
        LET r == deposit_tx(signer, o, m, amount)
        IN  r.err = "Ok"
                => /\ checked_add(vault[o].total_deposited, amount) # None
                   /\ r.vault = [vault EXCEPT ![o].total_deposited =
                                                  unwrap(checked_add(@, amount))]
                   /\ r.token = Moved(token, Wallet(vault[o].owner, m), Holding(o, m), amount)

C7_Witness ==
    /\ Called("deposit")
    /\ last.err = "Ok"
    /\ last.amount = u64(600000000)
    /\ vault[last.vault].total_deposited = u64(600000000)
    /\ token[Holding(last.vault, "usdc")] = u64(600000000)

\* C8: a successful withdraw(amount) takes amount from total_deposited,
\* which does not go below zero, and from the vault holding, and adds it to
\* the account the owner receives it in, for every user_token_account the
\* owner passes.
C8_WithdrawEffect ==
    \A signer \in Keys, o \in DOMAIN vault, m \in Mints :
        \A to \in UserTokenAccounts(m), amount \in Amounts(m) :
            LET r == withdraw_tx(signer, o, to, m, amount)
            IN  r.err = "Ok"
                    => /\ u64_le(amount, vault[o].total_deposited)
                       /\ r.vault = [vault EXCEPT ![o].total_deposited =
                                                      unwrap(checked_sub(@, amount))]
                       /\ r.token = Moved(token, Holding(o, m), to, amount)

\* C9 as stated: in every state deposit(0) and withdraw(0) by the owner fail
\* with InvalidAmount and change nothing.
C9_Original ==
    \A o \in DOMAIN vault, m \in Mints :
        LET d == deposit_tx(vault[o].owner, o, m, U64_ZERO)
        IN  /\ d.err = "InvalidAmount" /\ d.vault = vault /\ d.token = token
            /\ \A to \in UserTokenAccounts(m) :
                 LET w == withdraw_tx(vault[o].owner, o, to, m, U64_ZERO)
                 IN  w.err = "InvalidAmount" /\ w.vault = vault /\ w.token = token

\* C9 amended: in every state withdraw(0) by the owner fails with
\* InvalidAmount; deposit(0) by the owner fails with InvalidAmount on an
\* active vault and with VaultInactive on an inactive one; neither changes
\* the record or a balance.
C9_Amended ==
    \A o \in DOMAIN vault, m \in Mints :
        LET d == deposit_tx(vault[o].owner, o, m, U64_ZERO)
        IN  /\ d.err = IF vault[o].is_active THEN "InvalidAmount" ELSE "VaultInactive"
            /\ d.vault = vault /\ d.token = token
            /\ \A to \in UserTokenAccounts(m) :
                 LET w == withdraw_tx(vault[o].owner, o, to, m, U64_ZERO)
                 IN  w.err = "InvalidAmount" /\ w.vault = vault /\ w.token = token

C9_Witness ==
    /\ Called("deposit")
    /\ last.caller = vault[last.vault].owner
    /\ last.amount = U64_ZERO
    /\ ~vault[last.vault].is_active
    /\ last.err = "VaultInactive"

\* C10: total_deposited never exceeds CANARY_DEPOSIT_CAP = 1_000_000_000.
C10_CapInvariant ==
    \A o \in DOMAIN vault : u64_le(vault[o].total_deposited, CANARY_DEPOSIT_CAP)

C10_Witness ==
    /\ Called("deposit")
    /\ last.err = "DepositCapExceeded"
    /\ last.amount = u64(500000000)

\* the owner's deposits of an amount > 0 into an active vault whose new total
\* does not overflow and is above the cap
OverCap(o, amount) ==
    /\ vault[o].is_active
    /\ u64_gt(amount, U64_ZERO)
    /\ checked_add(vault[o].total_deposited, amount) # None
    /\ u64_gt(unwrap(checked_add(vault[o].total_deposited, amount)), CANARY_DEPOSIT_CAP)

\* C11 as stated: a deposit by the owner on an active vault with amount > 0
\* and total_deposited + amount above the cap (no u64 overflow) fails with
\* DepositCapExceeded and leaves total_deposited as it was.
C11_Original ==
    \A o \in DOMAIN vault, m \in Mints : \A amount \in Amounts(m) :
        OverCap(o, amount)
            => LET r == deposit_tx(vault[o].owner, o, m, amount)
               IN  /\ r.err = "DepositCapExceeded"
                   /\ r.vault[o].total_deposited = vault[o].total_deposited

\* C11 amended: such a deposit always fails and leaves total_deposited as it
\* was; the error is DepositCapExceeded when the owner's token account holds
\* the amount, and the token program's insufficient-funds error when it does
\* not (the transfer comes before the cap check).  A deposit by a funded
\* owner that brings the total to exactly the cap succeeds.
C11_Amended ==
    \A o \in DOMAIN vault, m \in Mints : \A amount \in Amounts(m) :
        LET r == deposit_tx(vault[o].owner, o, m, amount)
            funded == u64_ge(token[Wallet(vault[o].owner, m)], amount)
        IN  /\ OverCap(o, amount)
                => /\ r.err = IF funded THEN "DepositCapExceeded"
                              ELSE "TokenInsufficientFunds"
                   /\ r.vault[o].total_deposited = vault[o].total_deposited
            /\ (/\ vault[o].is_active
                /\ u64_gt(amount, U64_ZERO)
                /\ funded
                /\ checked_add(vault[o].total_deposited, amount) = Some(CANARY_DEPOSIT_CAP))
                => /\ r.err = "Ok"
                   /\ r.vault[o].total_deposited = CANARY_DEPOSIT_CAP

C11_Witness ==
    /\ Called("deposit")
    /\ last.caller = vault[last.vault].owner
    /\ last.amount = u64(600000000)
    /\ vault[last.vault].total_deposited = u64(500000000)
    /\ last.err = "DepositCapExceeded"

\* what a transaction with outcome r took out of, and put into, a holding
Debited(r, o, m) == checked_sub(token[Holding(o, m)], r.token[Holding(o, m)])
Credited(r, o, m) == checked_sub(r.token[Holding(o, m)], token[Holding(o, m)])

\* C12: every bot_trade that succeeds realized an output of at least
\* minimum_amount_out, the output realized being what the trade credited to
\* the vault's holding of the output mint; a trade that realized less fails
\* with SlippageExceeded and changes no holding balance.
C12_SlippageFloor ==
    \A signer \in Keys, o \in DOMAIN vault, amount_in \in TradeAmounts,
       minimum_amount_out \in MinimumAmounts, route_data \in RouteData,
       jupiter_program \in Routers, input_mint \in Mints, now \in Timestamps :
        LET r == bot_trade_tx(signer, o, amount_in, minimum_amount_out, route_data,
                              jupiter_program, input_mint, now)
            realized == Credited(r, o, OtherMint(input_mint))
        IN  /\ r.err = "Ok"
                => realized # None /\ u64_ge(unwrap(realized), minimum_amount_out)
            /\ r.err = "SlippageExceeded" => r.token = token

\* C13: a successful bot_trade emits exactly one TradeExecuted whose
\* bot_authority is the caller, whose minimum_amount_out is the requested
\* minimum and whose amount_in and amount_out are what the trade debited
\* from the input holding and credited to the output holding; a failed
\* bot_trade emits nothing.
C13_TradeRecord ==
    \A signer \in Keys, o \in DOMAIN vault, amount_in \in TradeAmounts,
       minimum_amount_out \in MinimumAmounts, route_data \in RouteData,
       jupiter_program \in Routers, input_mint \in Mints, now \in Timestamps :
        LET r == bot_trade_tx(signer, o, amount_in, minimum_amount_out, route_data,
                              jupiter_program, input_mint, now)
        IN  IF r.err = "Ok"
            THEN /\ Len(r.events) = 1
                 /\ r.events[1].bot_authority = signer
                 /\ r.events[1].minimum_amount_out = minimum_amount_out
                 /\ Some(r.events[1].amount_in) = Debited(r, o, input_mint)
                 /\ Some(r.events[1].amount_out) = Credited(r, o, OtherMint(input_mint))
            ELSE r.events = <<>>

\* every bot_trade that signer can send on vault o in the current state fails
\* with one of the errors in errs
EveryTradeFails(signer, o, errs) ==
    \A amount_in \in TradeAmounts, minimum_amount_out \in MinimumAmounts,
       route_data \in RouteData, jupiter_program \in Routers, input_mint \in Mints,
       now \in Timestamps :
        bot_trade_tx(signer, o, amount_in, minimum_amount_out, route_data,
                     jupiter_program, input_mint, now).err \in errs

\* C14: grant_bot_authority(d) by the owner succeeds in every state, active
\* or not, and sets bot_authority = Some(d) over any previous delegate,
\* changing nothing else; bot_authority never holds more than one identity,
\* and every bot_trade by a key other than the one it holds fails with
\* UnauthorizedBot or VaultInactive.
C14_GrantOverwrites ==
    \A o \in DOMAIN vault :
        /\ \A delegate \in Delegates :
            LET r == grant_bot_authority_tx(vault[o].owner, o, delegate)
            IN  /\ r.err = "Ok"
                /\ r.vault = [vault EXCEPT ![o].bot_authority = Some(delegate)]
                /\ r.token = token
        /\ Cardinality(vault[o].bot_authority) <= 1
        /\ \A signer \in Keys :
            vault[o].bot_authority # Some(signer)
                => EveryTradeFails(signer, o, {"UnauthorizedBot", "VaultInactive"})

C14_Witness ==
    /\ Called("grant_bot_authority")
    /\ last.caller = vault[last.vault].owner
    /\ last.err = "Ok"
    /\ ~vault[last.vault].is_active
    /\ vault[last.vault].bot_authority = Some("bob")

C15_Step ==
    \A o \in DOMAIN vault :
        /\ LET r == revoke_bot_authority_tx(vault[o].owner, o)
           IN  /\ r.err = "Ok"
               /\ r.vault = [vault EXCEPT ![o].bot_authority = None]
               /\ r.token = token
               /\ revoke_bot_authority(r.vault, r.token, o) = r
        /\ vault[o].bot_authority = None
            => /\ (last'.op = "bot_trade" /\ last'.vault = o) => last'.err # "Ok"
               /\ (o \in DOMAIN vault' /\ vault'[o].bot_authority # None)
                    => /\ last'.op = "grant_bot_authority"
                       /\ last'.vault = o
                       /\ last'.caller = vault[o].owner
                       /\ last'.err = "Ok"

\* C15: revoke_bot_authority by the owner succeeds in every state, also when
\* bot_authority is already None, and leaves bot_authority = None and
\* everything else as it was; a second revoke gives the same state; while
\* bot_authority is None every bot_trade by every caller fails, and only a
\* successful grant by the owner ends that.
C15_RevokeIdempotent == [][C15_Step]_vars

C15_Witness ==
    /\ Called("revoke_bot_authority")
    /\ last.caller = vault[last.vault].owner
    /\ last.err = "Ok"
    /\ vault[last.vault].is_active
    /\ vault[last.vault].bot_authority = None
    /\ u64_gt(token[Holding(last.vault, "usdc")], U64_ZERO)

\* C16: deactivate_vault by the owner succeeds in every state, on an inactive
\* vault too, where it changes nothing (twice is the same as once); it writes
\* is_active and bot_authority only: total_deposited, owner, created_at, bump
\* and every token balance stay as they were.
C16_DeactivateFrame ==
    \A o \in DOMAIN vault :
        LET r == deactivate_vault_tx(vault[o].owner, o)
        IN  /\ r.err = "Ok"
            /\ DOMAIN r.vault = DOMAIN vault
            /\ \A k \in DOMAIN vault \ {o} : r.vault[k] = vault[k]
            /\ ~r.vault[o].is_active
            /\ r.vault[o].total_deposited = vault[o].total_deposited
            /\ r.vault[o].owner = vault[o].owner
            /\ r.vault[o].created_at = vault[o].created_at
            /\ r.vault[o].bump = vault[o].bump
            /\ r.token = token
            /\ deactivate_vault(r.vault, r.token, o) = r
            /\ (~vault[o].is_active /\ vault[o].bot_authority = None) => r.vault = vault

C16_Witness ==
    /\ Called("deactivate_vault")
    /\ last.caller = vault[last.vault].owner
    /\ last.err = "Ok"
    /\ ~vault[last.vault].is_active
    /\ vault[last.vault].total_deposited = u64(1000000000)
    /\ token[Holding(last.vault, "usdc")] = u64(1000000000)
    /\ vault[last.vault].created_at = 2

C17_Step ==
    \A o \in DOMAIN vault :
        ~vault[o].is_active
            => /\ o \in DOMAIN vault'
               /\ ~vault'[o].is_active
               /\ (last'.op \in {"deposit", "bot_trade"} /\ last'.vault = o)
                    => last'.err # "Ok"
               /\ (last'.op = "initialize_vault" /\ last'.vault = o)
                    => last'.err # "Ok"

\* C17: once is_active is false it is false in every later state: no
\* initialize, deposit, withdraw, grant, revoke, bot_trade or deactivate
\* sets it again or removes the record (a second initialize is refused), and
\* from then on no deposit and no bot_trade on the vault succeeds.
C17_InactiveForever == [][C17_Step]_vars

C17_Witness ==
    /\ Called("initialize_vault")
    /\ last.caller = vault[last.vault].owner
    /\ last.err = "AlreadyExists"
    /\ ~vault[last.vault].is_active

C18_Step ==
    \A o \in DOMAIN vault' :
        IF o \in DOMAIN vault
        THEN vault'[o].total_deposited # vault[o].total_deposited
                => /\ last'.op \in {"deposit", "withdraw"}
                   /\ last'.vault = o
                   /\ last'.err = "Ok"
        ELSE /\ last'.op = "initialize_vault"
             /\ last'.vault = o
             /\ last'.err = "Ok"
             /\ vault'[o].total_deposited = U64_ZERO

C19_Step ==
    \A o \in DOMAIN vault :
        (o \in DOMAIN vault' /\ vault'[o].bot_authority # vault[o].bot_authority)
            => /\ last'.op \in {"grant_bot_authority", "revoke_bot_authority", "deactivate_vault"}
               /\ last'.vault = o
               /\ last'.caller = vault[o].owner
               /\ last'.err = "Ok"
               /\ last'.op # "grant_bot_authority" => vault'[o].bot_authority = None

\* C19: bot_authority of a record changes only in a successful grant, revoke
\* or deactivate signed by the owner, and only a grant stores a key there:
\* deposit, withdraw and bot_trade, by any caller, successful or failed,
\* leave it as it was, so a delegate can neither extend, pass on nor
\* re-establish its delegation.
C19_DelegateFrame == [][C19_Step]_vars

C19_Witness ==
    /\ Called("bot_trade")
    /\ last.caller = "bob"
    /\ last.err = "Ok"
    /\ vault[last.vault].bot_authority = Some("bob")

\* C20: initialize_vault by a key that has no record succeeds and creates
\* one with owner = the caller, total_deposited = 0, bot_authority = None,
\* is_active = true, created_at = the clock and the canonical bump; the
\* records of the other owners and every token balance stay as they were.
C20_InitializeEffect ==
    \A signer \in TwoOwners, now \in Timestamps :
        signer \notin DOMAIN vault
            => LET r == initialize_vault_tx(signer, now)
               IN  /\ r.err = "Ok"
                   /\ DOMAIN r.vault = DOMAIN vault \cup {signer}
                   /\ r.vault[signer] = [owner |-> signer,
                                         total_deposited |-> U64_ZERO,
                                         bot_authority |-> None,
                                         is_active |-> TRUE,
                                         created_at |-> now,
                                         bump |-> Bump(signer)]
                   /\ \A k \in DOMAIN vault : r.vault[k] = vault[k]
                   /\ r.token = token

C20_Witness ==
    /\ Called("initialize_vault")
    /\ last.caller = "bob"
    /\ last.err = "Ok"
    /\ vault["bob"].owner = "bob"
    /\ vault["bob"].total_deposited = U64_ZERO
    /\ "alice" \in DOMAIN vault
    /\ ~vault["alice"].is_active
    /\ vault["alice"].total_deposited = u64(500000000)
    /\ token[Holding("alice", "usdc")] = u64(500000000)

\* C21: initialize_vault by a key that already has a record is refused
\* (AlreadyExists: the account at the PDA is already in use) and leaves the
\* record, with its total_deposited, bot_authority and is_active, and every
\* balance as they were; every record is the one of the owner it is keyed by.
C21_InitializeOnce ==
    /\ \A o \in DOMAIN vault : vault[o].owner = o
    /\ \A signer \in DOMAIN vault, now \in Timestamps :
        LET r == initialize_vault_tx(signer, now)
        IN  /\ r.err = "AlreadyExists"
            /\ r.vault = vault
            /\ r.token = token

C21_Witness ==
    /\ Called("initialize_vault")
    /\ last.caller = "alice"
    /\ last.err = "AlreadyExists"
    /\ vault["alice"].is_active
    /\ vault["alice"].bot_authority = Some("bot")
    /\ vault["alice"].total_deposited = u64(500000000)
    /\ "bob" \in DOMAIN vault

\* C22: a withdraw by the owner of more than the holding balance the token
\* ledger reports fails with InsufficientFunds and changes nothing; so does
\* every withdraw of a positive amount from an empty holding.
C22_WithdrawInsufficient ==
    \A o \in DOMAIN vault, m \in Mints : \A amount \in Amounts(m) :
        (u64_gt(amount, token[Holding(o, m)])
         \/ (u64_gt(amount, U64_ZERO) /\ token[Holding(o, m)] = U64_ZERO))
            => \A to \in UserTokenAccounts(m) :
                 LET r == withdraw_tx(vault[o].owner, o, to, m, amount)
                 IN  /\ r.err = "InsufficientFunds"
                     /\ r.vault = vault
                     /\ r.token = token

C22_Witness ==
    /\ Called("withdraw")
    /\ last.caller = vault[last.vault].owner
    /\ last.err = "InsufficientFunds"
    /\ last.amount = u64(500000000)
    /\ vault[last.vault].total_deposited = U64_ZERO
    /\ token[Holding(last.vault, "usdc")] = U64_ZERO
    /\ token[Wallet(last.caller, "usdc")] = u64(1100000000)

\* C23: every deposit by the owner on a vault with is_active = false,
\* whatever the amount and the mint, fails with VaultInactive and changes
\* neither the record nor a balance.
C23_DepositGated ==
    \A o \in DOMAIN vault, m \in Mints : \A amount \in Amounts(m) :
        ~vault[o].is_active
            => LET r == deposit_tx(vault[o].owner, o, m, amount)
               IN  /\ r.err = "VaultInactive"
                   /\ r.vault = vault
                   /\ r.token = token

C23_Witness ==
    /\ Called("deposit")
    /\ last.caller = vault[last.vault].owner
    /\ last.amount = u64(500000000)
    /\ ~vault[last.vault].is_active
    /\ last.err = "VaultInactive"
    /\ u64_ge(token[Wallet(last.caller, "usdc")], last.amount)

\* C24: a bot_trade by the delegate on an active vault fails with
\* InvalidAmount when amount_in or minimum_amount_out is 0, and, the amounts
\* being positive, with InvalidRouteData when route_data is empty or the
\* router is the default identity.
C24_Validation ==
    \A o \in DOMAIN vault, signer \in Keys, amount_in \in TradeAmounts,
       minimum_amount_out \in MinimumAmounts, route_data \in RouteData,
       jupiter_program \in Routers, input_mint \in Mints, now \in Timestamps :
        (vault[o].is_active /\ vault[o].bot_authority = Some(signer))
            => LET r == bot_trade_tx(signer, o, amount_in, minimum_amount_out, route_data,
                                     jupiter_program, input_mint, now)
               IN  IF amount_in = U64_ZERO \/ minimum_amount_out = U64_ZERO
                   THEN r.err = "InvalidAmount"
                   ELSE (route_data = <<>> \/ jupiter_program = "default")
                            => r.err = "InvalidRouteData"

FirstInOrder(o, signer, amount_in, minimum_amount_out, route_data, jupiter_program, input_mint) ==
    IF ~vault[o].is_active THEN {"VaultInactive"}
    ELSE IF vault[o].bot_authority # Some(signer) THEN {"UnauthorizedBot"}
    ELSE IF amount_in = U64_ZERO \/ minimum_amount_out = U64_ZERO
         THEN IF route_data = <<>> \/ jupiter_program = "default"
              THEN {"InvalidAmount", "InvalidRouteData"}
              ELSE {"InvalidAmount"}
    ELSE IF route_data = <<>> \/ jupiter_program = "default" THEN {"InvalidRouteData"}
    ELSE IF u64_lt(token[Holding(o, input_mint)], amount_in) THEN {"InsufficientFunds"}
    ELSE {"Ok"}

\* C29: bot_trade checks its preconditions in the order gate, authorize,
\* validate, balance: a trade that violates several of them fails with the
\* first in the order VaultInactive, UnauthorizedBot, InvalidAmount or
\* InvalidRouteData, InsufficientFunds; an empty route_data with an
\* insufficient input balance gives InvalidRouteData.
C29_CheckOrder ==
    \A o \in DOMAIN vault, signer \in Keys, amount_in \in TradeAmounts,
       minimum_amount_out \in MinimumAmounts, route_data \in RouteData,
       jupiter_program \in Routers, input_mint \in Mints, now \in Timestamps :
        LET first == FirstInOrder(o, signer, amount_in, minimum_amount_out, route_data,
                                  jupiter_program, input_mint)
            r == bot_trade_tx(signer, o, amount_in, minimum_amount_out, route_data,
                              jupiter_program, input_mint, now)
        IN  first # {"Ok"} => r.err \in first

\* the owner's deposits of an amount > 0 into an active vault whose new total
\* is past 2^64 - 1
PastU64(o, amount) ==
    /\ vault[o].is_active
    /\ u64_gt(amount, U64_ZERO)
    /\ checked_add(vault[o].total_deposited, amount) = None

\* C26 as stated: a deposit whose total_deposited + amount would exceed
\* 2^64 - 1 fails with Overflow, and the counter neither wraps nor saturates.
C26_Original ==
    \A o \in DOMAIN vault, m \in Mints : \A amount \in Amounts(m) :
        LET r == deposit_tx(vault[o].owner, o, m, amount)
        IN  /\ PastU64(o, amount) => r.err = "Overflow"
            /\ r.err = "Ok"
                => Some(r.vault[o].total_deposited) = checked_add(vault[o].total_deposited, amount)

\* C26 amended: such a deposit always fails and changes nothing, with
\* Overflow when the owner's token account holds the amount and with the
\* token program's insufficient-funds error when it does not (the transfer
\* comes before the addition); after every successful deposit the counter
\* is the exact sum, so it neither wraps nor saturates.
C26_Amended ==
    \A o \in DOMAIN vault, m \in Mints : \A amount \in Amounts(m) :
        LET r == deposit_tx(vault[o].owner, o, m, amount)
            funded == u64_ge(token[Wallet(vault[o].owner, m)], amount)
        IN  /\ PastU64(o, amount)
                => /\ r.err = IF funded THEN "Overflow" ELSE "TokenInsufficientFunds"
                   /\ r.vault = vault
                   /\ r.token = token
            /\ r.err = "Ok"
                => Some(r.vault[o].total_deposited) = checked_add(vault[o].total_deposited, amount)

C26_Witness ==
    /\ Called("deposit")
    /\ last.caller = vault[last.vault].owner
    /\ last.amount = U64_MAX
    /\ u64_gt(vault[last.vault].total_deposited, U64_ZERO)
    /\ last.err = "Overflow"

\* C27: a withdraw by the owner with 0 < amount <= holding balance and
\* amount > total_deposited fails with Underflow; total_deposited, the
\* holding and every other balance keep their values.
C27_WithdrawUnderflow ==
    \A o \in DOMAIN vault, m \in Mints : \A amount \in Amounts(m) :
        (/\ u64_gt(amount, U64_ZERO)
         /\ u64_le(amount, token[Holding(o, m)])
         /\ u64_gt(amount, vault[o].total_deposited))
            => \A to \in UserTokenAccounts(m) :
                 LET r == withdraw_tx(vault[o].owner, o, to, m, amount)
                 IN  /\ r.err = "Underflow"
                     /\ r.vault = vault
                     /\ r.token = token

C27_Witness ==
    /\ Called("withdraw")
    /\ last.caller = vault[last.vault].owner
    /\ last.amount = U64_MAX
    /\ token[Holding(last.vault, "alt")] = U64_MAX
    /\ vault[last.vault].total_deposited = u64(500000000)
    /\ last.err = "Underflow"

C28_Step ==
    \A o \in DOMAIN vault :
        /\ o \in DOMAIN vault'
        /\ vault'[o].owner = vault[o].owner
        /\ vault'[o].bump = vault[o].bump
        /\ vault'[o].created_at = vault[o].created_at

\* C28: owner, bump and created_at of a record are the values initialize
\* gave them: no later operation, a refused second initialize included,
\* changes them or removes the record.
C28_OwnerImmutable == [][C28_Step]_vars

C28_Witness ==
    /\ Called("grant_bot_authority")
    /\ last.err = "Ok"
    /\ vault[last.vault].owner = last.vault
    /\ vault[last.vault].created_at = 1
    /\ vault[last.vault].bump = Bump(last.vault)
    /\ vault[last.vault].bot_authority = Some("bot")
    /\ \A o \in TwoOwners : o \in DOMAIN vault /\ ~vault[o].is_active

\* C30: a bot_trade calls the router at most once, and only after the gate,
\* the authorization, the amount validation and the input-balance check
\* have passed: a trade that fails one of them does not reach the router.
C30_RouterAfterChecks ==
    \A signer \in Keys, o \in DOMAIN vault, route \in Routes, amount_in \in RouteAmounts,
       minimum_amount_out \in RouteMinimums, jupiter_program \in Routers,
       input_mint \in Mints, now \in Timestamps :
        LET r == bot_trade_jupiter_tx(signer, o, route, amount_in, minimum_amount_out,
                                      jupiter_program, input_mint, now)
        IN  /\ r.routed <= 1
            /\ r.routed = 1
                => /\ vault[o].is_active
                   /\ vault[o].bot_authority = Some(signer)
                   /\ u64_gt(amount_in, U64_ZERO)
                   /\ u64_gt(minimum_amount_out, U64_ZERO)
                   /\ u64_ge(token[Holding(o, input_mint)], amount_in)

\* one step of the delegation history of every record: a successful trade is
\* made by the delegate the record held before the step; a record holds
\* delegate d after a step only if the step was a successful grant of d
\* signed by the record's owner, or the record held d before and the step
\* was not a successful revoke or deactivate of it; and a successful revoke
\* or deactivate leaves no delegate
C31_Step ==
    /\ (last'.op = "bot_trade" /\ last'.err = "Ok")
          => /\ last'.vault \in DOMAIN vault
             /\ vault[last'.vault].is_active
             /\ vault[last'.vault].bot_authority = Some(last'.caller)
    /\ \A o \in DOMAIN vault' : \A d \in vault'[o].bot_authority :
          \/ /\ last'.op = "grant_bot_authority"
             /\ last'.vault = o
             /\ last'.err = "Ok"
             /\ o \in DOMAIN vault
             /\ last'.caller = vault[o].owner
             /\ vault' = grant_bot_authority_tx(last'.caller, o, d).vault
          \/ /\ o \in DOMAIN vault
             /\ vault[o].bot_authority = Some(d)
             /\ ~(/\ last'.vault = o
                  /\ last'.err = "Ok"
                  /\ last'.op \in {"grant_bot_authority", "revoke_bot_authority",
                                   "deactivate_vault"})
    /\ \A o \in DOMAIN vault' :
          (/\ last'.vault = o
           /\ last'.err = "Ok"
           /\ last'.op \in {"revoke_bot_authority", "deactivate_vault"})
              => vault'[o].bot_authority = None

\* C31: every successful bot_trade by caller d is preceded by a successful
\* grant_bot_authority(d) issued by the owner, with no successful
\* revoke_bot_authority, deactivate_vault or grant of another delegate
\* between that grant and the trade: the record's delegate is d exactly
\* from such a grant until the next successful revoke, deactivate or grant,
\* and a trade succeeds only for the delegate the record holds.
C31_TradeAfterGrant == [][C31_Step]_vars

C31_Witness ==
    /\ Called("bot_trade")
    /\ last.err = "Ok"
    /\ last.caller = "bot"
    /\ last.amount = u64(1000000)
    /\ vault[last.vault].is_active
    /\ vault[last.vault].bot_authority = Some("bot")
    /\ Len(emitted) = 1
    /\ emitted[1].bot_authority = "bot"

\* C32: when the holdings change only through deposit and withdraw of this
\* program (no transfer made directly on the ledger, no trade proceeds),
\* total_deposited of every record equals the balance of its holding in
\* every reachable state, and so no withdraw fails with Underflow.
C32_CounterIsBalance ==
    /\ \A o \in DOMAIN vault : vault[o].total_deposited = token[Holding(o, "usdc")]
    /\ last.op = "withdraw" => last.err # "Underflow"

\* amounts around the rounding of amount_in * 95 / 100 and around the
\* largest amount_in whose product with 95 fits 64 bits,
\* 194,176,253,407,468,964 = floor((2^64 - 1) / 95)
SwapAmounts ==
    {u64(19), u64(1000000), u64(1000001),
     <<11037, 2693184, 2825636>>, <<11037, 2693184, 2825637>>, U64_MAX}

\* floor(amount_in * 95 / 100) of these amounts, None where amount_in * 95
\* is past 2^64 - 1
SwapOutput(amount_in) ==
    IF amount_in = u64(19) THEN Some(u64(18))
    ELSE IF amount_in = u64(1000000) THEN Some(u64(950000))
    ELSE IF amount_in = u64(1000001) THEN Some(u64(950000))
    ELSE IF amount_in = <<11037, 2693184, 2825636>> THEN Some(<<10485, 3187671, 167771>>)
    ELSE None

=============================================================================
